---- MODULE Spec2Model ----
(***************************************************************************)
(* Model of the Bresenham line engine of line.hpp: line_state_t and its    *)
(* stepping functions, line_iterator, line_range and iterate_line.         *)
(* Coordinates are records [x, y]; a component index (component_index<0>,  *)
(* component_index<1>) is the field name "x" or "y".  int2d_t values are   *)
(* modelled as unbounded integers: outside SpecSteep every quantity of the *)
(* model stays far below 2^31, so no 32-bit operation wraps; SpecSteep     *)
(* takes direction components whose square overflows int2d_t.              *)
(***************************************************************************)
EXTENDS Integers, Sequences, FiniteSets, TLC

\* ------------------------------------------------------------------ bounds
\* Start positions and range endpoints are drawn from -MaxCoord..MaxCoord.
MaxCoord == 2
\* Components of the direction handed to pos_dir are drawn from -MaxDir..MaxDir.
MaxDir == 4
\* Step counts handed to next(line, n) / prev(line, n) are drawn from -MaxN..MaxN.
MaxN == 3
\* A caller keeps stepping only while the position stays within -MaxPos..MaxPos.
MaxPos == 6
\* The stepped line starts at a position drawn from 0..MaxStart squared.
MaxStart == 0
\* The step counts N the N-step laws are checked for: 0..MaxCount.
MaxCount == 10
\* Step counts handed to the line_range constructors are drawn from 0..MaxSteps.
MaxSteps == 2
\* Where flips are allowed, dir components are drawn from -MaxFlipDir..MaxFlipDir
\* and the position stays within -MaxFlipPos..MaxFlipPos.
MaxFlipDir == 2
MaxFlipPos == 3
\* Where ranges are lengthened and shortened, dir components are drawn from
\* -MaxMutDir..MaxMutDir, the state a range is built from stays within
\* -MaxMutPos..MaxMutPos, and at most MaxMuts lengthen / shorten calls are made.
MaxMutDir == 2
MaxMutPos == 2
MaxMuts == 2

\* Two iterators over one line: dir components range over
\* -MaxPairDir..MaxPairDir and both iterators stay within
\* -MaxPairPos..MaxPairPos of the origin.
MaxPairDir == 2
MaxPairPos == 2

\* Where the start of the line is remembered, dir components range over
\* -MaxCentreDir..MaxCentreDir and the position stays within
\* -MaxCentrePos..MaxCentrePos.
MaxCentreDir == 3
MaxCentrePos == 4

\* Where the width of int2d_t is kept: dir components range over
\* -MaxSteepDir..MaxSteepDir and the two values -BigDir and BigDir, whose
\* square does not fit int2d_t; a state is stepped while its position is
\* within -MaxSteepPos..MaxSteepPos.
MaxSteepDir == 2
MaxSteepPos == 1
BigDir == 46341

\* The largest int2d_t (std::int32_t).
IntMax == 2147483647

VARIABLES
    line,   \* the caller's line_state_t being stepped
    last,   \* name of the last operation applied to line
    ends,   \* the arguments (from, to) of line_range(from, to) and iterate_line
    rng,    \* the line_range: [m_begin, m_end], each a line_iterator's m_state
    cur,    \* the iterator of the loop for(it = begin(); it != end(); ++it)
    seen,   \* the positions that loop has dereferenced, in order
    il,     \* iterate_line's locals: [frm, err, pc]
    out,    \* the positions iterate_line has passed to it_func, in order
    fault,  \* "none", or "assert" once an assert of the debug build has failed
    built   \* how rng came to be: [ctor, steps, ops], the constructor used, its
            \* step count and the lengthen / shorten calls made since, in order

vars == <<line, last, ends, rng, cur, seen, il, out, fault, built>>

\* ------------------------------------------------------- coordinate algebra
Coord(a, b) == [x |-> a, y |-> b]

coord_eq(lhs, rhs) == lhs.x = rhs.x /\ lhs.y = rhs.y

coord_add(lhs, rhs) == Coord(lhs.x + rhs.x, lhs.y + rhs.y)

coord_sub(lhs, rhs) == Coord(lhs.x - rhs.x, lhs.y - rhs.y)

vec_mul(crd, v) == Coord(crd.x * v, crd.y * v)

abs(v) == IF v < 0 THEN -v ELSE v

max(a, b) == IF a < b THEN b ELSE a

sqr(t) == t * t

\* Mutant of int_div: the quotient is floored where C++ truncates.
int_div_floor(a, b) == IF b > 0 THEN a \div b ELSE (-a) \div (-b)

\* C++ integer division truncates towards zero (TLA+ \div floors).
int_div(a, b) ==
    IF a >= 0 THEN (IF b > 0 THEN a \div b ELSE -(a \div (-b)))
    ELSE (IF b > 0 THEN -((-a) \div b) ELSE (-a) \div (-b))

\* Mutant of c_dist: std::min where the code has std::max.
c_dist_min(c1, c2) ==
    LET a == abs(c1.x - c2.x)
        b == abs(c1.y - c2.y)
    IN  IF a < b THEN a ELSE b

c_dist(c1, c2) == max(abs(c1.x - c2.x), abs(c1.y - c2.y))

\* ------------------------------------------------------------- impl helpers
is_steep(dir) == sqr(dir.y) > sqr(dir.x)

coord_abs(dir) == Coord(abs(dir.x), abs(dir.y))

\* The two component indices func is called with: cx the major axis,
\* cy the minor axis.
steep_swap(l) ==
    IF is_steep(l.dir) THEN [cx |-> "y", cy |-> "x"]
    ELSE [cx |-> "x", cy |-> "y"]

signum(v) == (IF 0 < v THEN 1 ELSE 0) - (IF v < 0 THEN 1 ELSE 0)

\* ------------------------------------------------------------- line_state_t
LineState(p, d, e) == [pos |-> p, dir |-> d, error |-> e]

state_eq(lhs, rhs) ==
    coord_eq(lhs.pos, rhs.pos) /\ coord_eq(lhs.dir, rhs.dir)
    /\ lhs.error = rhs.error

\* Mutant of dir_err: the two branches of the conditional exchanged.
dir_err_swapped(dir) == abs(IF is_steep(dir) THEN dir.x ELSE dir.y)

dir_err(dir) == abs(IF is_steep(dir) THEN dir.y ELSE dir.x)

pos_dir(pos, dir) == LineState(pos, dir, dir_err(dir))

from_to(from, to) ==
    IF coord_eq(from, to) THEN pos_dir(from, Coord(1, 0))
    ELSE pos_dir(from, coord_sub(to, from))

\* Mutant of next: the minor delta is not doubled before it is subtracted.
next_no_double(l) ==
    LET ax == steep_swap(l)
        cx == ax.cx
        cy == ax.cy
        d  == coord_abs(l.dir)
        p1 == [l.pos EXCEPT ![cx] = @ + signum(l.dir[cx])]
        e1 == l.error - d[cy]
    IN  IF e1 < 0
        THEN LineState([p1 EXCEPT ![cy] = @ + signum(l.dir[cy])], l.dir,
                       e1 + d[cx] * 2)
        ELSE LineState(p1, l.dir, e1)

\* Mutant of next: the major axis moves by dir[cx], not by its sign.
next_no_signum(l) ==
    LET ax == steep_swap(l)
        cx == ax.cx
        cy == ax.cy
        d  == coord_abs(l.dir)
        p1 == [l.pos EXCEPT ![cx] = @ + l.dir[cx]]
        e1 == l.error - d[cy] * 2
    IN  IF e1 < 0
        THEN LineState([p1 EXCEPT ![cy] = @ + signum(l.dir[cy])], l.dir,
                       e1 + d[cx] * 2)
        ELSE LineState(p1, l.dir, e1)

\* Mutant of next: the minor axis also steps when error has come down to 0.
next_minor_at_zero(l) ==
    LET ax == steep_swap(l)
        cx == ax.cx
        cy == ax.cy
        d  == coord_abs(l.dir)
        p1 == [l.pos EXCEPT ![cx] = @ + signum(l.dir[cx])]
        e1 == l.error - d[cy] * 2
    IN  IF e1 <= 0
        THEN LineState([p1 EXCEPT ![cy] = @ + signum(l.dir[cy])], l.dir,
                       e1 + d[cx] * 2)
        ELSE LineState(p1, l.dir, e1)

\* Mutant of next: the minor-axis branch does not add 2 * d[cx] back to error.
next_no_add_back(l) ==
    LET ax == steep_swap(l)
        cx == ax.cx
        cy == ax.cy
        d  == coord_abs(l.dir)
        p1 == [l.pos EXCEPT ![cx] = @ + signum(l.dir[cx])]
        e1 == l.error - d[cy] * 2
    IN  IF e1 < 0
        THEN LineState([p1 EXCEPT ![cy] = @ + signum(l.dir[cy])], l.dir, e1)
        ELSE LineState(p1, l.dir, e1)

next(l) ==
    LET ax == steep_swap(l)
        cx == ax.cx
        cy == ax.cy
        d  == coord_abs(l.dir)
        p1 == [l.pos EXCEPT ![cx] = @ + signum(l.dir[cx])]
        e1 == l.error - d[cy] * 2
    IN  IF e1 < 0
        THEN LineState([p1 EXCEPT ![cy] = @ + signum(l.dir[cy])], l.dir,
                       e1 + d[cx] * 2)
        ELSE LineState(p1, l.dir, e1)

\* Mutant of prev: the minor-axis branch leaves error uncorrected.
prev_keep_error(l) ==
    LET ax == steep_swap(l)
        cx == ax.cx
        cy == ax.cy
        d  == coord_abs(l.dir)
        p1 == [l.pos EXCEPT ![cx] = @ - signum(l.dir[cx])]
        e1 == l.error + d[cy] * 2
    IN  IF e1 > d[cx] * 2
        THEN LineState([p1 EXCEPT ![cy] = @ - signum(l.dir[cy])], l.dir, e1)
        ELSE LineState(p1, l.dir, e1)

\* line_state_t::prev(line)
prev(l) ==
    LET ax == steep_swap(l)
        cx == ax.cx
        cy == ax.cy
        d  == coord_abs(l.dir)
        p1 == [l.pos EXCEPT ![cx] = @ - signum(l.dir[cx])]
        e1 == l.error + d[cy] * 2
    IN  IF e1 > d[cx] * 2
        THEN LineState([p1 EXCEPT ![cy] = @ - signum(l.dir[cy])], l.dir,
                       e1 - d[cx] * 2)
        ELSE LineState(p1, l.dir, e1)

\* Mutant of next_y_change: the "- 1" of the numerator dropped.
next_y_change_no_dec(l, n) ==
    LET ax == steep_swap(l)
        d2 == vec_mul(coord_abs(l.dir), 2)
        e1 == l.error - d2[ax.cy] * n
    IN  int_div(d2[ax.cx] - e1, d2[ax.cx])

\* The quotient y_change of next_impl.
next_y_change(l, n) ==
    LET ax == steep_swap(l)
        d2 == vec_mul(coord_abs(l.dir), 2)
        e1 == l.error - d2[ax.cy] * n
    IN  int_div(d2[ax.cx] - e1 - 1, d2[ax.cx])

next_impl(l, n) ==
    LET ax == steep_swap(l)
        cx == ax.cx
        cy == ax.cy
        d2 == vec_mul(coord_abs(l.dir), 2)
        p1 == [l.pos EXCEPT ![cx] = @ + n * signum(l.dir[cx])]
        e1 == l.error - d2[cy] * n
        y_change == next_y_change(l, n)
    IN  LineState([p1 EXCEPT ![cy] = @ + y_change * signum(l.dir[cy])], l.dir,
                  e1 + y_change * d2[cx])

\* Mutant of prev_y_change: the "- 1" of the numerator dropped.
prev_y_change_no_dec(l, n) ==
    LET ax == steep_swap(l)
        d2 == vec_mul(coord_abs(l.dir), 2)
        e1 == l.error + d2[ax.cy] * n
    IN  int_div(e1, d2[ax.cx])

\* The quotient y_change of prev_impl.
prev_y_change(l, n) ==
    LET ax == steep_swap(l)
        d2 == vec_mul(coord_abs(l.dir), 2)
        e1 == l.error + d2[ax.cy] * n
    IN  int_div(e1 - 1, d2[ax.cx])

prev_impl(l, n) ==
    LET ax == steep_swap(l)
        cx == ax.cx
        cy == ax.cy
        d2 == vec_mul(coord_abs(l.dir), 2)
        p1 == [l.pos EXCEPT ![cx] = @ - n * signum(l.dir[cx])]
        e1 == l.error + d2[cy] * n
        y_change == prev_y_change(l, n)
    IN  LineState([p1 EXCEPT ![cy] = @ - y_change * signum(l.dir[cy])], l.dir,
                  e1 - y_change * d2[cx])

\* Mutant of next_n: the count is not negated on the way to prev_impl.
next_n_no_negate(l, n) == IF n < 0 THEN prev_impl(l, n) ELSE next_impl(l, n)

\* line_state_t::next(line, n)
next_n(l, n) == IF n < 0 THEN prev_impl(l, -n) ELSE next_impl(l, n)

\* line_state_t::prev(line, n)
prev_n(l, n) == IF n < 0 THEN next_impl(l, -n) ELSE prev_impl(l, n)

\* Mutant of hflipped: error is set anew from the flipped direction.
hflipped_new_error(l) ==
    pos_dir(l.pos, Coord(l.dir.x * (-1), l.dir.y))

\* line_state_t::hflipped
hflipped(l) == [l EXCEPT !.dir.x = @ * (-1)]

\* line_state_t::vflipped
vflipped(l) == [l EXCEPT !.dir.y = @ * (-1)]

\* The outcome of a call that asserts: the value it returns, or the failed
\* assertion that ended the program before any value was computed.
Ok(v) == [fault |-> "none", val |-> v]

Failed(v) == [fault |-> "assert", val |-> v]

\* line_state_t::next(line): assert((line.dir != coord_t{0,0})), then the step.
next_call(l) == IF l.dir = Coord(0, 0) THEN Failed(l) ELSE Ok(next(l))

\* line_state_t::prev(line): assert((line.dir != coord_t{0,0})), then the step.
prev_call(l) == IF l.dir = Coord(0, 0) THEN Failed(l) ELSE Ok(prev(l))

\* Mutant of next_n_call: the asserts compiled out, so that a zero dir reaches
\* the division by d2[cx] = 0.
next_n_call_no_assert(l, n) ==
    IF l.dir = Coord(0, 0) THEN [fault |-> "div0", val |-> l]
    ELSE Ok(next_n(l, n))

\* line_state_t::next(line, n): next_impl and prev_impl both assert
\* line.dir != {0,0} before steep_swap runs the division, and
\* y_change >= 0 once the quotient is computed.
next_n_call(l, n) ==
    IF l.dir = Coord(0, 0) THEN Failed(l)
    ELSE IF (IF n < 0 THEN prev_y_change(l, -n) ELSE next_y_change(l, n)) < 0
         THEN Failed(l)
    ELSE Ok(next_n(l, n))

\* line_state_t::prev(line, n), likewise.
prev_n_call(l, n) ==
    IF l.dir = Coord(0, 0) THEN Failed(l)
    ELSE IF (IF n < 0 THEN next_y_change(l, -n) ELSE prev_y_change(l, n)) < 0
         THEN Failed(l)
    ELSE Ok(prev_n(l, n))

\* ------------------------------------------------------------ line_iterator
\* A line_iterator is its m_state; operator* yields the position.
deref(it) == it.pos

\* The debug assertion of operator==(line_iterator, line_iterator).
it_eq_assert(lhs, rhs) == ~coord_eq(deref(lhs), deref(rhs)) \/ state_eq(lhs, rhs)

it_eq(lhs, rhs) == coord_eq(deref(lhs), deref(rhs))

\* Mutant of it_dist: Manhattan distance (m_dist) where the code has c_dist.
it_dist_manhattan(lhs, rhs) ==
    abs(deref(lhs).x - deref(rhs).x) + abs(deref(lhs).y - deref(rhs).y)

\* operator-(line_iterator, line_iterator)
it_dist(lhs, rhs) == c_dist(deref(lhs), deref(rhs))

\* operator+(int2d_t) const: copy, then += n, which is advance(n).
it_plus(it, n) == next_n(it, n)

\* operator-(int2d_t) const: copy, then -= n, which is radvance(n).
it_minus(it, n) == prev_n(it, n)

\* Mutant of iter_cmp: the difference is not projected onto the direction.
iter_cmp_no_dir(lhs, rhs) ==
    LET p2 == deref(rhs)
        cx == steep_swap(lhs).cx
    IN  lhs.pos[cx] - p2[cx]

iter_cmp(lhs, rhs) ==
    LET p2 == deref(rhs)
        cx == steep_swap(lhs).cx
    IN  (lhs.pos[cx] - p2[cx]) * lhs.dir[cx]

it_lt(lhs, rhs) == iter_cmp(lhs, rhs) < 0

it_le(lhs, rhs) == iter_cmp(lhs, rhs) <= 0

it_gt(lhs, rhs) == iter_cmp(lhs, rhs) > 0

it_ge(lhs, rhs) == iter_cmp(lhs, rhs) >= 0

\* --------------------------------------------------------------- line_range
\* Mutant of line_range_steps: the end is found by stepping backwards.
line_range_steps_back(begin, steps) ==
    [m_begin |-> begin, m_end |-> prev_n(begin, steps)]

\* line_range(line_state_t begin, int2d_t steps)
line_range_steps(begin, steps) ==
    [m_begin |-> begin, m_end |-> next_n(begin, steps)]

\* Mutant of line_range: the step count is c_dist without the "+ 1".
line_range_no_inc(from, to) ==
    line_range_steps(from_to(from, to), c_dist(from, to))

\* line_range(coord_t from, coord_t to)
line_range(from, to) ==
    line_range_steps(from_to(from, to), c_dist(from, to) + 1)

\* line_range(line_state_t begin, int2d_t steps), whose m_end initialiser
\* calls next(begin, steps).
line_range_steps_call(begin, steps) ==
    LET e == next_n_call(begin, steps)
    IN  IF e.fault = "none" THEN Ok([m_begin |-> begin, m_end |-> e.val])
        ELSE [fault |-> e.fault, val |-> [m_begin |-> begin, m_end |-> begin]]

\* line_range(coord_t pos, coord_t dir, int2d_t steps): the delegated
\* constructor runs first, then the body asserts dir != {0,0}.
line_range_pos_dir_call(pos, dir, steps) ==
    LET r == line_range_steps_call(pos_dir(pos, dir), steps)
    IN  IF r.fault /= "none" THEN r
        ELSE IF dir = Coord(0, 0) THEN Failed(r.val)
        ELSE r

size(r) == it_dist(r.m_end, r.m_begin)

first(r) == deref(r.m_begin)

rlast(r) == deref(it_minus(r.m_end, 1))

\* ------------------------------------------------------------- iterate_line
\* The locals of iterate_line on entry to its loop: the parameter from, which
\* the loop moves, and err = d.x - d.y.
iterate_line_init(from, to) ==
    LET d == coord_abs(coord_sub(to, from))
    IN  [frm |-> from, err |-> d.x - d.y, pc |-> "loop"]

\* Mutant of iterate_line_body: the second if, which moves y, is left out.
iterate_line_body_x_only(l, dir) ==
    LET d    == coord_abs(dir)
        s    == Coord(signum(dir.x), signum(dir.y))
        err2 == 2 * l.err
        mvx  == err2 > -d.y
    IN  [frm |-> Coord(l.frm.x + (IF mvx THEN s.x ELSE 0), l.frm.y),
         err |-> l.err - (IF mvx THEN d.y ELSE 0),
         pc  |-> "loop"]

\* Mutant of iterate_line_body: the y test is "<=" where the code has "<".
iterate_line_body_le(l, dir) ==
    LET d    == coord_abs(dir)
        s    == Coord(signum(dir.x), signum(dir.y))
        err2 == 2 * l.err
        mvx  == err2 > -d.y
        mvy  == err2 <= d.x
    IN  [frm |-> Coord(l.frm.x + (IF mvx THEN s.x ELSE 0),
                       l.frm.y + (IF mvy THEN s.y ELSE 0)),
         err |-> l.err - (IF mvx THEN d.y ELSE 0) + (IF mvy THEN d.x ELSE 0),
         pc  |-> "loop"]

\* One pass of the loop body, taken when from != to.
iterate_line_body(l, dir) ==
    LET d    == coord_abs(dir)
        s    == Coord(signum(dir.x), signum(dir.y))
        err2 == 2 * l.err
        mvx  == err2 > -d.y
        mvy  == err2 < d.x
    IN  [frm |-> Coord(l.frm.x + (IF mvx THEN s.x ELSE 0),
                       l.frm.y + (IF mvy THEN s.y ELSE 0)),
         err |-> l.err - (IF mvx THEN d.y ELSE 0) + (IF mvy THEN d.x ELSE 0),
         pc  |-> "loop"]

\* ------------------------------------------------------------------- states
Zero == Coord(0, 0)

\* A value-initialised line_state_t (line_iterator() : m_state{}).
NoState == LineState(Zero, Zero, 0)

Grid == {Coord(a, b) : a \in -MaxCoord..MaxCoord, b \in -MaxCoord..MaxCoord}

Starts == {Coord(a, b) : a \in 0..MaxStart, b \in 0..MaxStart}

Dirs == {Coord(a, b) : a \in -MaxDir..MaxDir, b \in -MaxDir..MaxDir} \ {Zero}

InBox(p) == abs(p.x) <= MaxPos /\ abs(p.y) <= MaxPos

IdleRange ==
    /\ ends = [from |-> Zero, to |-> Zero]
    /\ rng = [m_begin |-> NoState, m_end |-> NoState]
    /\ cur = NoState
    /\ seen = << >>
    /\ il = [frm |-> Zero, err |-> 0, pc |-> "idle"]
    /\ out = << >>
    /\ built = [ctor |-> "none", steps |-> 0, ops |-> << >>]

\* A line state fresh from one of the two factories.
Init ==
    /\ \/ \E p \in Starts, d \in Dirs : line = pos_dir(p, d)
       \/ \E f \in Starts, t \in Grid : line = from_to(f, t)
    /\ last = "factory"
    /\ fault = "none"
    /\ IdleRange

\* line.advance()
Advance ==
    /\ fault = "none"
    /\ InBox(next_call(line).val.pos)
    /\ line' = next_call(line).val
    /\ fault' = next_call(line).fault
    /\ last' = "next"
    /\ UNCHANGED <<ends, rng, cur, seen, il, out, built>>

\* line.radvance()
RAdvance ==
    /\ fault = "none"
    /\ InBox(prev_call(line).val.pos)
    /\ line' = prev_call(line).val
    /\ fault' = prev_call(line).fault
    /\ last' = "prev"
    /\ UNCHANGED <<ends, rng, cur, seen, il, out, built>>

\* line.advance(n)
AdvanceN ==
    \E n \in -MaxN..MaxN :
        /\ fault = "none"
        /\ InBox(next_n_call(line, n).val.pos)
        /\ line' = next_n_call(line, n).val
        /\ fault' = next_n_call(line, n).fault
        /\ last' = "next_n"
        /\ UNCHANGED <<ends, rng, cur, seen, il, out, built>>

\* line.radvance(n)
RAdvanceN ==
    \E n \in -MaxN..MaxN :
        /\ fault = "none"
        /\ InBox(prev_n_call(line, n).val.pos)
        /\ line' = prev_n_call(line, n).val
        /\ fault' = prev_n_call(line, n).fault
        /\ last' = "prev_n"
        /\ UNCHANGED <<ends, rng, cur, seen, il, out, built>>

Next == Advance \/ RAdvance \/ AdvanceN \/ RAdvanceN

Spec == Init /\ [][Next]_vars

\* The endpoint pairs ranges are built from: every pair of the grid, and the
\* two lines (0,0)-(5,2) and (0,0)-(0,5).
EndPairs ==
    {[from |-> f, to |-> t] : f \in Grid, t \in Grid}
    \cup {[from |-> Zero, to |-> Coord(5, 2)], [from |-> Zero, to |-> Coord(0, 5)]}

\* line.hflip()
HFlip ==
    /\ fault = "none"
    /\ line' = hflipped(line)
    /\ last' = "hflip"
    /\ UNCHANGED <<ends, rng, cur, seen, il, out, fault, built>>

\* line.vflip()
VFlip ==
    /\ fault = "none"
    /\ line' = vflipped(line)
    /\ last' = "vflip"
    /\ UNCHANGED <<ends, rng, cur, seen, il, out, fault, built>>

FlipDirs ==
    {Coord(a, b) : a \in -MaxFlipDir..MaxFlipDir, b \in -MaxFlipDir..MaxFlipDir}
    \ {Zero}

InFlipBox(p) == abs(p.x) <= MaxFlipPos /\ abs(p.y) <= MaxFlipPos

\* A line state fresh from pos_dir, about to be stepped and flipped.
InitFlip ==
    /\ \E p \in Starts, d \in FlipDirs : line = pos_dir(p, d)
    /\ last = "factory"
    /\ fault = "none"
    /\ IdleRange

\* A stepping operation that keeps the position within the flip box.
FlipStep ==
    /\ Advance \/ RAdvance \/ AdvanceN \/ RAdvanceN
    /\ InFlipBox(line'.pos)

NextFlip == FlipStep \/ HFlip \/ VFlip

SpecFlip == InitFlip /\ [][NextFlip]_vars

\* line_range(line.pos, line.dir, steps): a range built from a position, a
\* direction and a step count.
ConstructPosDir ==
    \E steps \in 0..MaxSteps :
        LET r == line_range_pos_dir_call(line.pos, line.dir, steps)
            ok == r.fault = "none"
        IN  /\ fault = "none"
            /\ built.ctor = "none"
            /\ fault' = r.fault
            /\ rng' = IF ok THEN r.val ELSE rng
            /\ cur' = IF ok THEN r.val.m_begin ELSE cur
            /\ built' = IF ok THEN [ctor |-> "pos_dir", steps |-> steps, ops |-> << >>]
                         ELSE built
            /\ last' = "range"
            /\ UNCHANGED <<line, ends, seen, il, out>>

\* A caller holding a position and the invalid direction (0,0).
InitZero ==
    /\ \E p \in Grid : line = pos_dir(p, Zero)
    /\ last = "factory"
    /\ fault = "none"
    /\ IdleRange

NextZero == Advance \/ RAdvance \/ AdvanceN \/ RAdvanceN \/ ConstructPosDir

SpecZero == InitZero /\ [][NextZero]_vars

\* A range built from two coordinates, about to be walked by the loop
\* for(it = begin(); it != end(); ++it) and by iterate_line.
InitRange ==
    /\ \E e \in EndPairs :
        /\ ends = e
        /\ rng = line_range(e.from, e.to)
        /\ cur = line_range(e.from, e.to).m_begin
        /\ il = iterate_line_init(e.from, e.to)
        /\ built = [ctor |-> "from_to", steps |-> c_dist(e.from, e.to) + 1,
                    ops |-> << >>]
    /\ seen = << >>
    /\ out = << >>
    /\ line = NoState
    /\ last = "none"
    /\ fault = "none"

WalkDone == it_eq(cur, rng.m_end)

\* One pass of the range loop: test it != end(), visit *it, ++it.
WalkStep ==
    /\ it_eq_assert(cur, rng.m_end)
    /\ ~WalkDone
    /\ seen' = Append(seen, deref(cur))
    /\ cur' = next(cur)
    /\ UNCHANGED <<line, last, ends, rng, il, out, fault, built>>

\* One evaluation of iterate_line's loop condition (it_func(from), from != to)
\* and, when it is true, the body.
IterateLineStep ==
    /\ il.pc = "loop"
    /\ out' = Append(out, il.frm)
    /\ il' = IF ~coord_eq(il.frm, ends.to) THEN iterate_line_body(il, coord_sub(ends.to, ends.from))
             ELSE [il EXCEPT !.pc = "done"]
    /\ UNCHANGED <<line, last, ends, rng, cur, seen, fault, built>>

NextRange == WalkStep \/ IterateLineStep

SpecRange == InitRange /\ [][NextRange]_vars

\* The same with the running iterate_line call making progress: its loop is
\* sequential code, so a pass that can be made is made.
SpecRangeFair == SpecRange /\ WF_vars(IterateLineStep)

\* line_range(line, steps): a range built from a line state and a step count.
Construct ==
    \E steps \in 0..MaxSteps :
        LET r == line_range_steps_call(line, steps)
            ok == r.fault = "none"
        IN  /\ fault = "none"
            /\ built.ctor = "none"
            /\ fault' = r.fault
            /\ rng' = IF ok THEN r.val ELSE rng
            /\ cur' = IF ok THEN r.val.m_begin ELSE cur
            /\ built' = IF ok THEN [ctor |-> "state", steps |-> steps, ops |-> << >>]
                         ELSE built
            /\ last' = "range"
            /\ UNCHANGED <<line, ends, seen, il, out>>

\* rng.lengthen(): ++m_end
Lengthen ==
    /\ fault = "none"
    /\ built.ctor /= "none"
    /\ Len(built.ops) < MaxMuts
    /\ seen = << >>
    /\ rng' = [rng EXCEPT !.m_end = next_call(rng.m_end).val]
    /\ fault' = next_call(rng.m_end).fault
    /\ built' = [built EXCEPT !.ops = Append(@, "lengthen")]
    /\ UNCHANGED <<line, last, ends, cur, seen, il, out>>

\* rng.shorten(): --m_end
Shorten ==
    /\ fault = "none"
    /\ built.ctor /= "none"
    /\ Len(built.ops) < MaxMuts
    /\ seen = << >>
    /\ rng' = [rng EXCEPT !.m_end = prev_call(rng.m_end).val]
    /\ fault' = prev_call(rng.m_end).fault
    /\ built' = [built EXCEPT !.ops = Append(@, "shorten")]
    /\ UNCHANGED <<line, last, ends, cur, seen, il, out>>

MutDirs ==
    {Coord(a, b) : a \in -MaxMutDir..MaxMutDir, b \in -MaxMutDir..MaxMutDir}
    \ {Zero}

InMutBox(p) == abs(p.x) <= MaxMutPos /\ abs(p.y) <= MaxMutPos

\* The range loop gives up once it has left every position an end can have.
InWalkBox(p) ==
    /\ abs(p.x) <= MaxMutPos + MaxSteps + MaxMuts + 1
    /\ abs(p.y) <= MaxMutPos + MaxSteps + MaxMuts + 1

\* A line state fresh from pos_dir; it is stepped, a range is built from it,
\* the range is lengthened and shortened, and then walked.
InitMut ==
    /\ \E p \in Starts, d \in MutDirs : line = pos_dir(p, d)
    /\ last = "factory"
    /\ fault = "none"
    /\ IdleRange

\* A single step of the line no range has been built from yet.
MutStep ==
    /\ built.ctor = "none"
    /\ Advance \/ RAdvance
    /\ InMutBox(line'.pos)

\* One pass of the range loop, within the walk box.
MutWalk ==
    /\ built.ctor /= "none"
    /\ WalkStep
    /\ InWalkBox(cur'.pos)

NextMut == MutStep \/ Construct \/ ConstructPosDir \/ Lengthen \/ Shorten \/ MutWalk

SpecMut == InitMut /\ [][NextMut]_vars

\* --------------------------------------------------------- two iterators
\* Two line_iterators, line and cur, copied from one factory state and moved
\* independently; last names the operator called last, and for operator==
\* what it returned.
PairDirs ==
    {Coord(a, b) : a \in -MaxPairDir..MaxPairDir, b \in -MaxPairDir..MaxPairDir}
    \ {Zero}

InPairBox(p) == abs(p.x) <= MaxPairPos /\ abs(p.y) <= MaxPairPos

\* p is one of the start positions.
InStartBox(p) == p \in Starts

InitPair ==
    /\ \E p \in Starts, d \in PairDirs : line = pos_dir(p, d)
    /\ cur = line
    /\ last = "factory"
    /\ fault = "none"
    /\ ends = [from |-> Zero, to |-> Zero]
    /\ rng = [m_begin |-> NoState, m_end |-> NoState]
    /\ seen = << >>
    /\ il = [frm |-> Zero, err |-> 0, pc |-> "idle"]
    /\ out = << >>
    /\ built = [ctor |-> "none", steps |-> 0, ops |-> << >>]

\* The iterator named by which takes the outcome r of a stepping call.
PairMove(which, r, op) ==
    /\ fault = "none"
    /\ InPairBox(r.val.pos)
    /\ line' = IF which = "line" THEN r.val ELSE line
    /\ cur' = IF which = "cur" THEN r.val ELSE cur
    /\ fault' = r.fault
    /\ last' = op
    /\ UNCHANGED <<ends, rng, seen, il, out, built>>

\* ++it
ItInc ==
    \/ PairMove("line", next_call(line), "++")
    \/ PairMove("cur", next_call(cur), "++")

\* --it
ItDec ==
    \/ PairMove("line", prev_call(line), "--")
    \/ PairMove("cur", prev_call(cur), "--")

\* it += n
ItPlusEq ==
    \E n \in -MaxN..MaxN :
        \/ PairMove("line", next_n_call(line, n), "+=")
        \/ PairMove("cur", next_n_call(cur, n), "+=")

\* it -= n
ItMinusEq ==
    \E n \in -MaxN..MaxN :
        \/ PairMove("line", prev_n_call(line, n), "-=")
        \/ PairMove("cur", prev_n_call(cur, n), "-=")

\* line == cur: the debug assertion, then the comparison of positions.
ItCompare ==
    /\ fault = "none"
    /\ fault' = IF it_eq_assert(line, cur) THEN "none" ELSE "assert"
    /\ last' = IF it_eq(line, cur) THEN "equal" ELSE "unequal"
    /\ UNCHANGED <<line, cur, ends, rng, seen, il, out, built>>

NextPair == ItInc \/ ItDec \/ ItPlusEq \/ ItMinusEq \/ ItCompare

SpecPair == InitPair /\ [][NextPair]_vars

\* ------------------------------------------------- a line and its start
\* A state made by pos_dir(p, dir) and stepped; ends keeps p and p + dir, the
\* two points the ideal line runs through.
CentreDirs ==
    {Coord(a, b) : a \in -MaxCentreDir..MaxCentreDir,
                   b \in -MaxCentreDir..MaxCentreDir} \ {Zero}

InCentreBox(p) == abs(p.x) <= MaxCentrePos /\ abs(p.y) <= MaxCentrePos

InitCentre ==
    /\ \E p \in Starts, d \in CentreDirs :
        /\ line = pos_dir(p, d)
        /\ ends = [from |-> p, to |-> coord_add(p, d)]
    /\ last = "factory"
    /\ fault = "none"
    /\ rng = [m_begin |-> NoState, m_end |-> NoState]
    /\ cur = NoState
    /\ seen = << >>
    /\ il = [frm |-> Zero, err |-> 0, pc |-> "idle"]
    /\ out = << >>
    /\ built = [ctor |-> "none", steps |-> 0, ops |-> << >>]

\* A stepping operation that keeps the position within the box.
CentreStep ==
    /\ Advance \/ RAdvance \/ AdvanceN \/ RAdvanceN
    /\ InCentreBox(line'.pos)

NextCentre == CentreStep

SpecCentre == InitCentre /\ [][NextCentre]_vars

\* ------------------------------------------------ the width of int2d_t
\* sqr(t) = t * t is computed in int2d_t; the product fits when it is at
\* most IntMax.
SqrFits(t) == t = 0 \/ abs(t) <= IntMax \div abs(t)

\* What is_steep(dir) can return: the comparison of the squares when both
\* fit; when a square overflows, which is undefined for a signed type, either
\* answer.
is_steep_outcomes(dir) ==
    IF SqrFits(dir.x) /\ SqrFits(dir.y) THEN {is_steep(dir)} ELSE BOOLEAN

\* The component indices steep_swap passes on for an answer of is_steep.
steep_swap_on(steep) ==
    IF steep THEN [cx |-> "y", cy |-> "x"] ELSE [cx |-> "x", cy |-> "y"]

\* dir_err for an answer of is_steep.
dir_err_on(dir, steep) == abs(IF steep THEN dir.y ELSE dir.x)

\* impl::next_impl with the axes ax steep_swap passed it: the assert on dir,
\* the division by d2[cx], the assert on y_change, the new state.
next_impl_on(l, n, ax) ==
    LET cx == ax.cx
        cy == ax.cy
        d2 == vec_mul(coord_abs(l.dir), 2)
        p1 == [l.pos EXCEPT ![cx] = @ + n * signum(l.dir[cx])]
        e1 == l.error - d2[cy] * n
    IN  IF l.dir = Coord(0, 0) THEN Failed(l)
        ELSE IF d2[cx] = 0 THEN [fault |-> "div0", val |-> l]
        ELSE LET y_change == int_div(d2[cx] - e1 - 1, d2[cx])
             IN  IF y_change < 0 THEN Failed(l)
                 ELSE Ok(LineState(
                          [p1 EXCEPT ![cy] = @ + y_change * signum(l.dir[cy])],
                          l.dir, e1 + y_change * d2[cx]))

\* impl::prev_impl, likewise.
prev_impl_on(l, n, ax) ==
    LET cx == ax.cx
        cy == ax.cy
        d2 == vec_mul(coord_abs(l.dir), 2)
        p1 == [l.pos EXCEPT ![cx] = @ - n * signum(l.dir[cx])]
        e1 == l.error + d2[cy] * n
    IN  IF l.dir = Coord(0, 0) THEN Failed(l)
        ELSE IF d2[cx] = 0 THEN [fault |-> "div0", val |-> l]
        ELSE LET y_change == int_div(e1 - 1, d2[cx])
             IN  IF y_change < 0 THEN Failed(l)
                 ELSE Ok(LineState(
                          [p1 EXCEPT ![cy] = @ - y_change * signum(l.dir[cy])],
                          l.dir, e1 - y_change * d2[cx]))

SteepComps == (-MaxSteepDir..MaxSteepDir) \cup {-BigDir, BigDir}

SteepDirs == {Coord(a, b) : a \in SteepComps, b \in SteepComps} \ {Zero}

InSteepBox(p) == abs(p.x) <= MaxSteepPos /\ abs(p.y) <= MaxSteepPos

\* A state made by pos_dir(p, dir), whose error is dir_err(dir).
InitSteep ==
    /\ \E p \in Starts, d \in SteepDirs, steep \in BOOLEAN :
        /\ steep \in is_steep_outcomes(d)
        /\ line = LineState(p, d, dir_err_on(d, steep))
    /\ last = "factory"
    /\ fault = "none"
    /\ IdleRange

\* line.advance(n), n >= 0: next_impl on the axes steep_swap selects.
SteepAdvanceN ==
    \E n \in 0..MaxN, steep \in BOOLEAN :
        LET r == next_impl_on(line, n, steep_swap_on(steep))
        IN  /\ fault = "none"
            /\ InSteepBox(line.pos)
            /\ steep \in is_steep_outcomes(line.dir)
            /\ line' = r.val
            /\ fault' = r.fault
            /\ last' = "next_n"
            /\ UNCHANGED <<ends, rng, cur, seen, il, out, built>>

\* line.radvance(n), n >= 0: prev_impl on the axes steep_swap selects.
SteepRAdvanceN ==
    \E n \in 0..MaxN, steep \in BOOLEAN :
        LET r == prev_impl_on(line, n, steep_swap_on(steep))
        IN  /\ fault = "none"
            /\ InSteepBox(line.pos)
            /\ steep \in is_steep_outcomes(line.dir)
            /\ line' = r.val
            /\ fault' = r.fault
            /\ last' = "prev_n"
            /\ UNCHANGED <<ends, rng, cur, seen, il, out, built>>

NextSteep == SteepAdvanceN \/ SteepRAdvanceN

SpecSteep == InitSteep /\ [][NextSteep]_vars

\* ------------------------------------------------------------------- claims
RECURSIVE next_times(_, _)
\* Single-step next applied k times.
next_times(l, k) == IF k = 0 THEN l ELSE next_times(next(l), k - 1)

RECURSIVE prev_times(_, _)
\* Single-step prev applied k times.
prev_times(l, k) == IF k = 0 THEN l ELSE prev_times(prev(l), k - 1)

\* |dir[major]| of a state.
MajorLen(l) == coord_abs(l.dir)[steep_swap(l).cx]

\* |dir[minor]| of a state.
MinorLen(l) == coord_abs(l.dir)[steep_swap(l).cy]

\* C1: for every state reached from a factory state by any steps and every N
\* in 0..MaxCount, next(s, N) is the state N single-step next calls produce.
C1_NextNIsRepeatedNext ==
    \A n \in 0..MaxCount : next_n(line, n) = next_times(line, n)

\* C1 witness: a state reached by an N-step call from which some N-step
\* advance owes at least two minor-axis moves.
C1_Witness ==
    /\ last = "next_n"
    /\ line.error = 0
    /\ \E n \in 2..MaxCount :
        /\ next_y_change(line, n) >= 2
        /\ next_n(line, n) = next_times(line, n)

\* C2: for every valid reachable state s, prev(next(s)) = s.
C2_PrevOfNextIsIdentity == line.dir /= Zero => prev(next(line)) = line

\* C3: for every valid reachable state s, including states reached by
\* stepping backwards, next(prev(s)) = s.
C3_NextOfPrevIsIdentity == line.dir /= Zero => next(prev(line)) = line

\* C4: for every state reached from a factory state by any steps and every N
\* in 0..MaxCount, prev(s, N) is the state N single-step prev calls produce.
C4_PrevNIsRepeatedPrev ==
    \A n \in 0..MaxCount : prev_n(line, n) = prev_times(line, n)

\* C4 witness: a state reached by an N-step call, with the error at its
\* upper end, from which some N-step retreat owes at least two minor moves.
C4_Witness ==
    /\ last = "prev_n"
    /\ line.error = 2 * MajorLen(line)
    /\ \E n \in 2..MaxCount :
        /\ prev_y_change(line, n) >= 2
        /\ prev_n(line, n) = prev_times(line, n)

\* C5: once both traversals of (from, to) have finished, iterate_line has
\* called it_func with exactly the positions the range loop visited, in order.
C5_IterateLineMatchesRange ==
    (WalkDone /\ il.pc = "done") => seen = out

\* C5 witness: both traversals finished on a line that moved on both axes.
C5_Witness ==
    /\ WalkDone
    /\ il.pc = "done"
    /\ Len(seen) >= 4
    /\ seen = out
    /\ seen[Len(seen)].x /= seen[1].x
    /\ seen[Len(seen)].y /= seen[1].y
    /\ abs(seen[Len(seen)].x - seen[1].x) /= abs(seen[Len(seen)].y - seen[1].y)

\* C6: for every valid reachable state s and N in 0..MaxCount,
\* next(s, -N) = prev(s, N) and prev(s, -N) = next(s, N); for N = 0 both are s.
C6_NegativeCountSymmetry ==
    /\ \A n \in 0..MaxCount :
        /\ next_n(line, -n) = prev_n(line, n)
        /\ prev_n(line, -n) = next_n(line, n)
    /\ next_n(line, 0) = line
    /\ prev_n(line, 0) = line

\* C6 witness: a state reached by a call with a count, where a negative count
\* moves the position on both axes.
C6_Witness ==
    /\ last \in {"next_n", "prev_n"}
    /\ \E n \in 1..MaxCount :
        /\ next_n(line, -n).pos.x /= line.pos.x
        /\ next_n(line, -n).pos.y /= line.pos.y
        /\ next_n(line, -n) = prev_n(line, n)

\* C7: for a line_range built from (from, to), first() = from and
\* last() = to.
C7_FirstAndLast ==
    first(rng) = ends.from /\ rlast(rng) = ends.to

\* C7 witness: a walked range between two distinct points of a steep line.
C7_Witness ==
    /\ WalkDone
    /\ ends.from /= ends.to
    /\ is_steep(rng.m_begin.dir)
    /\ MinorLen(rng.m_begin) > 0
    /\ rlast(rng) = ends.to

\* C8: for a line_range built from (from, to), size() = c_dist(from, to) + 1.
C8_SizeIsChessDistancePlusOne ==
    size(rng) = max(abs(ends.to.x - ends.from.x), abs(ends.to.y - ends.from.y)) + 1

\* C8 witness: a walked range whose size is the number of positions visited,
\* on a line that moves on both axes.
C8_Witness ==
    /\ WalkDone
    /\ size(rng) = Len(seen)
    /\ size(rng) >= 4
    /\ MinorLen(rng.m_begin) > 0

\* C9: for every valid reachable state s and n in 0..MaxCount, the iterator
\* distance between next(s, n) and s is n.
C9_DistanceIsStepCount ==
    \A n \in 0..MaxCount : it_dist(next_n(line, n), line) = n

\* C9 witness: a stepped state on a diagonal-leaning line, from which n steps
\* move the minor axis too.
C9_Witness ==
    /\ last /= "factory"
    /\ MinorLen(line) > 0
    /\ \E n \in 2..MaxCount :
        /\ next_y_change(line, n) >= 1
        /\ it_dist(next_n(line, n), line) = n

\* C10: for every iterator it the range loop visits before end(), it + 1 > it,
\* it < it + 1, and not it + 1 < it.
C10_SuccessorIsGreater ==
    ~WalkDone =>
        /\ it_gt(it_plus(cur, 1), cur)
        /\ it_lt(cur, it_plus(cur, 1))
        /\ ~it_lt(it_plus(cur, 1), cur)

\* C10 witness: a visited iterator, past begin(), on a steep line that runs
\* towards negative y.
C10_Witness ==
    /\ ~WalkDone
    /\ Len(seen) >= 1
    /\ is_steep(cur.dir)
    /\ cur.dir.y < 0
    /\ it_gt(it_plus(cur, 1), cur)

\* C13: from_to(from, to), as line_range(from, to) calls it, returns pos = from,
\* dir = (1,0) when from = to and to - from otherwise, and
\* error = max(|dir.x|, |dir.y|); the dir is never (0,0).
C13_FromTo ==
    LET s == rng.m_begin
    IN  /\ s = from_to(ends.from, ends.to)
        /\ s.pos = ends.from
        /\ (ends.from = ends.to => s.dir = Coord(1, 0))
        /\ (ends.from /= ends.to =>
                s.dir = Coord(ends.to.x - ends.from.x, ends.to.y - ends.from.y))
        /\ s.error = max(abs(s.dir.x), abs(s.dir.y))
        /\ s.dir /= Zero

\* C13 witness: a range built between two distinct points of a steep line
\* whose x also changes.
C13_Witness ==
    /\ ends.from /= ends.to
    /\ abs(ends.to.y - ends.from.y) > abs(ends.to.x - ends.from.x)
    /\ ends.to.x /= ends.from.x
    /\ rng.m_begin.error = abs(ends.to.y - ends.from.y)

\* The line (0,0)-(5,2) and the positions expected on it.
Line52 == [from |-> Zero, to |-> Coord(5, 2)]

Expected52 ==
    <<Coord(0, 0), Coord(1, 0), Coord(2, 1), Coord(3, 1), Coord(4, 2), Coord(5, 2)>>

\* The line (0,0)-(0,5) and the positions expected on it.
Line05 == [from |-> Zero, to |-> Coord(0, 5)]

Expected05 ==
    <<Coord(0, 0), Coord(0, 1), Coord(0, 2), Coord(0, 3), Coord(0, 4), Coord(0, 5)>>

\* C15: iterating line_range((0,0), (5,2)) front to back yields exactly
\* (0,0),(1,0),(2,1),(3,1),(4,2),(5,2), in that order.
C15_Line52 ==
    ends = Line52 =>
        /\ Len(seen) <= Len(Expected52)
        /\ seen = SubSeq(Expected52, 1, Len(seen))
        /\ (WalkDone => seen = Expected52)

\* C15 witness: the walk of (0,0)-(5,2) has ended with six positions.
C15_Witness == ends = Line52 /\ WalkDone /\ Len(seen) = 6

\* C16: iterating line_range((0,0), (0,5)) front to back yields exactly
\* (0,0),(0,1),(0,2),(0,3),(0,4),(0,5); the steep branch is taken, and x and
\* error never change.
C16_Line05 ==
    ends = Line05 =>
        /\ Len(seen) <= Len(Expected05)
        /\ seen = SubSeq(Expected05, 1, Len(seen))
        /\ (WalkDone => seen = Expected05)
        /\ is_steep(cur.dir)
        /\ steep_swap(cur).cx = "y"
        /\ cur.pos.x = rng.m_begin.pos.x
        /\ cur.error = rng.m_begin.error

\* C16 witness: the walk of (0,0)-(0,5) has ended with six positions.
C16_Witness == ends = Line05 /\ WalkDone /\ Len(seen) = 6 /\ cur.pos.y = 6

\* C17: for every p, line_range(p, p) has size() = 1 and the range loop
\* visits exactly one position, p.
C17_DegenerateRange ==
    ends.from = ends.to =>
        /\ size(rng) = 1
        /\ Len(seen) <= 1
        /\ (WalkDone => seen = <<ends.from>>)

\* C17 witness: the walk of a one-point range away from the origin has ended.
C17_Witness ==
    /\ ends.from = ends.to
    /\ ends.from /= Zero
    /\ WalkDone
    /\ seen = <<ends.from>>

\* C12: a stepping operation called on a state whose dir is (0,0), and the
\* construction of line_range(pos, (0,0), steps), end in an assertion failure:
\* no successor state and no range is produced, and no division is evaluated.
C12_ZeroDirAsserts ==
    [][line.dir = Zero => (fault' = "assert" /\ line' = line /\ rng' = rng
                            /\ built' = built)]_vars

\* C12 witness: the construction of a range with dir (0,0) has failed its
\* assertion.
C12_Witness ==
    /\ fault = "assert"
    /\ last = "range"
    /\ line.dir = Zero
    /\ line.pos /= Zero
    /\ built.ctor = "none"

\* C14: hflipped(s) is s with only dir.x negated and vflipped(s) is s with
\* only dir.y negated; pos, error and the other dir component are unchanged.
C14_FlipsNegateOneComponent ==
    /\ hflipped(line) = LineState(line.pos, Coord(-line.dir.x, line.dir.y), line.error)
    /\ vflipped(line) = LineState(line.pos, Coord(line.dir.x, -line.dir.y), line.error)

\* C14 witness: a state just flipped horizontally, away from its start and
\* with an error other than the one a factory would give it.
C14_Witness ==
    /\ last = "hflip"
    /\ line.dir.x /= 0
    /\ line.dir.y /= 0
    /\ line.pos \notin Starts
    /\ line.error /= dir_err(line.dir)

\* C11: the first lengthen() or shorten() on a freshly constructed line_range
\* (built from a reachable line_state_t and a step count, or from
\* (pos, dir, steps)) leaves begin() unchanged; lengthen() raises size() by
\* exactly 1, and shorten() on a range with size() >= 1 lowers size() by
\* exactly 1.
C11_LengthenShortenSize ==
    [][built.ops = << >> =>
        /\ (built'.ops = <<"lengthen">> =>
             /\ rng'.m_begin = rng.m_begin
             /\ size(rng') = size(rng) + 1)
        /\ (built'.ops = <<"shorten">> /\ size(rng) >= 1 =>
             /\ rng'.m_begin = rng.m_begin
             /\ size(rng') = size(rng) - 1)]_vars

\* C18: after one shorten() on a range built from (pos, dir, steps) with
\* steps >= 2, the range loop ends after exactly size() increments: it never
\* makes more, and once it has made size() of them it is at end().
C18_ShortenedWalkEnds ==
    (built.ctor = "pos_dir" /\ built.steps >= 2 /\ built.ops = <<"shorten">>) =>
        /\ Len(seen) <= size(rng)
        /\ (Len(seen) = size(rng) => WalkDone)
        /\ (WalkDone => Len(seen) = size(rng))

\* C19: for a range built from (pos, dir, steps) with steps >= 1,
\* last() = *(begin() + (steps - 1)).
C19_LastIsFinalElement ==
    (built.ctor = "pos_dir" /\ built.steps >= 1 /\ built.ops = << >>) =>
        rlast(rng) = deref(it_plus(rng.m_begin, built.steps - 1))

\* C20: two iterators copied from one factory state and moved by any
\* sequences of ++, --, += n and -= n have equal full states whenever their
\* positions are equal, so the assertion of operator== never fails.
C20_EqualPositionEqualState ==
    /\ it_eq(line, cur) => state_eq(line, cur)
    /\ fault = "none"

\* Both iterators have left the start, met at one position in a state only a
\* backward step produces (error = 2 * major delta), and were compared.
C20_Witness ==
    /\ last = "equal"
    /\ it_eq(line, cur)
    /\ ~InStartBox(line.pos)
    /\ line.error = 2 * MajorLen(line)
    /\ MinorLen(line) > 0

\* C21: in every state reached from a factory state by forward and backward
\* steps, the quotient y_change of next_impl and of prev_impl is non-negative
\* for every n >= 0, so assert(y_change >= 0) never fails.
C21_YChangeNonNegative ==
    /\ fault = "none"
    /\ \A n \in 0..MaxN :
        /\ next_y_change(line, n) >= 0
        /\ prev_y_change(line, n) >= 0

\* A backward step has left error at 2 * major delta, where the numerator of
\* next_impl's quotient is negative for n = 0, and an N-step call from here
\* owes minor-axis steps.
C21_Witness ==
    /\ last /= "factory"
    /\ line.error = 2 * MajorLen(line)
    /\ 2 * MajorLen(line) - line.error - 1 < 0
    /\ \E n \in 1..MaxN : next_y_change(line, n) > 0

\* What one forward step or one flip makes of l: next(l), next(l, n) for a
\* count n >= 0, prev(l, n) for a count n <= 0, hflipped(l), vflipped(l).
ForwardOf(l) ==
    {next(l), hflipped(l), vflipped(l)}
    \cup {next_n(l, n) : n \in 0..MaxN}
    \cup {prev_n(l, -n) : n \in 0..MaxN}

\* C22: every state reached from a factory state by single steps, N-steps and
\* flips has 0 <= error <= 2*D, D = max(|dir.x|, |dir.y|); a factory state
\* has error < 2*D, and a forward step or a flip taken from a state with
\* error < 2*D leads to a state with error < 2*D, so states reached by
\* forward steps only have error < 2*D.
C22_ErrorRange ==
    /\ [](0 <= line.error /\ line.error <= 2 * MajorLen(line))
    /\ line.error < 2 * MajorLen(line)
    /\ [][(line.error < 2 * MajorLen(line) /\ line' \in ForwardOf(line))
            => line'.error < 2 * MajorLen(line')]_vars

\* A flipped state whose error is at the upper end 2*D, which only a backward
\* step produces.
C22_Witness ==
    /\ last = "hflip"
    /\ line.pos \notin Starts
    /\ line.error = 2 * MajorLen(line)
    /\ MinorLen(line) > 0

\* Steps of line along its major axis since the start ends.from, signed
\* along dir.
MajorSteps ==
    LET cx == steep_swap(line).cx
    IN  (line.pos[cx] - ends.from[cx]) * signum(line.dir[cx])

\* Steps of line along its minor axis since the start, signed along dir.
MinorSteps ==
    LET cy == steep_swap(line).cy
    IN  (line.pos[cy] - ends.from[cy]) * signum(line.dir[cy])

\* C23: a position reached by stepping from pos_dir(p, dir), k steps from p
\* along the major axis and j steps along the minor axis, has
\* 2*|j*D - k*m| <= D, and the state's error is D - 2*m*k + 2*D*j.
C23_CentredOnIdealLine ==
    LET D == MajorLen(line)
        m == MinorLen(line)
    IN  /\ 2 * abs(MinorSteps * D - MajorSteps * m) <= D
        /\ line.error = D - 2 * m * MajorSteps + 2 * D * MinorSteps

\* A state away from the start, reached by a backward step, exactly half a
\* cell from the ideal line on the far side (error = 2*D).
C23_Witness ==
    /\ last \in {"prev", "prev_n"}
    /\ MajorSteps /= 0
    /\ MinorSteps /= 0
    /\ 2 * abs(MinorSteps * MajorLen(line) - MajorSteps * MinorLen(line))
         = MajorLen(line)
    /\ line.error = 2 * MajorLen(line)

\* C24: a step line.advance() moves the major-axis coordinate by exactly
\* sign(dir[major]) and the minor-axis coordinate by sign(dir[minor]) if
\* error - 2*|dir[minor]| < 0 and by 0 otherwise; the two positions are at
\* Chebyshev distance 1 and dir is unchanged.
C24_NextMovesOneCell ==
    [][last' = "next" =>
        LET cx == steep_swap(line).cx
            cy == steep_swap(line).cy
        IN  /\ line'.pos[cx] = line.pos[cx] + signum(line.dir[cx])
            /\ line'.pos[cy] = line.pos[cy]
                 + (IF line.error - 2 * abs(line.dir[cy]) < 0
                    THEN signum(line.dir[cy]) ELSE 0)
            /\ (line'.pos[cy] /= line.pos[cy]
                  <=> line.error - 2 * abs(line.dir[cy]) < 0)
            /\ c_dist(line.pos, line'.pos) = 1
            /\ line'.dir = line.dir]_vars

\* A state just made by next with a minor-axis move: its error lies strictly
\* between 2*(D - m) and 2*D.
C24_Witness ==
    /\ last = "next"
    /\ MinorLen(line) > 0
    /\ line.error > 2 * (MajorLen(line) - MinorLen(line))
    /\ line.error < 2 * MajorLen(line)

\* C25: iterate_line(from, to, f) terminates; it never calls f more than
\* c_dist(from, to) + 1 times, and when it has ended it has called f exactly
\* c_dist(from, to) + 1 times, first with from and last with to.
C25_IterateLineTerminates ==
    /\ [](/\ Len(out) <= c_dist(ends.from, ends.to) + 1
          /\ il.pc = "done" =>
               /\ Len(out) = c_dist(ends.from, ends.to) + 1
               /\ out[1] = ends.from
               /\ out[Len(out)] = ends.to)
    /\ <>(il.pc = "done")

\* iterate_line has ended on a line between two distinct points that moves on
\* both axes, by different amounts.
C25_Witness ==
    /\ il.pc = "done"
    /\ Len(out) = c_dist(ends.from, ends.to) + 1
    /\ Len(out) >= 4
    /\ ends.from.x /= ends.to.x
    /\ ends.from.y /= ends.to.y
    /\ abs(ends.to.x - ends.from.x) /= abs(ends.to.y - ends.from.y)

\* C26: for every dir != (0,0) the component steep_swap selects as the major
\* axis is non-zero, so no call of next_impl or prev_impl divides by
\* 2*|dir[major]| = 0.
C26_MajorAxisNonZero == fault /= "div0"

\* C27: for every reachable state s, hflipped(s) has the major axis of s, and
\* next(hflipped(s)) has the error and the y of next(s) and the negated x
\* offset from s.pos; likewise vflipped(s), with x and y exchanged.
C27_FlipCommutesWithNext ==
    LET n  == next(line)
        nh == next(hflipped(line))
        nv == next(vflipped(line))
    IN  /\ is_steep(hflipped(line).dir) = is_steep(line.dir)
        /\ nh.error = n.error
        /\ nh.pos.y = n.pos.y
        /\ nh.pos.x - line.pos.x = -(n.pos.x - line.pos.x)
        /\ is_steep(vflipped(line).dir) = is_steep(line.dir)
        /\ nv.error = n.error
        /\ nv.pos.x = n.pos.x
        /\ nv.pos.y - line.pos.y = -(n.pos.y - line.pos.y)

\* A state that was stepped and then flipped, on a steep line, whose next
\* step moves both axes and whose error is not the factory's.
C27_Witness ==
    /\ last = "hflip"
    /\ is_steep(line.dir)
    /\ line.pos \notin Starts
    /\ line.error /= dir_err(line.dir)
    /\ next(line).pos.x /= line.pos.x
    /\ next(line).pos.y /= line.pos.y
    /\ next(hflipped(line)).pos.x /= next(line).pos.x

\* The positions the loop over line_range(from, to) visits: size() of them,
\* each one next step after the one before.
Visited(from, to) ==
    [i \in 1..(c_dist(from, to) + 1) |-> deref(next_times(from_to(from, to), i - 1))]

\* A sequence read back to front.
Reversed(sq) == [i \in 1..Len(sq) |-> sq[Len(sq) + 1 - i]]

\* The state the loop over rng is in at its i-th position.
StateAt(i) == next_times(rng.m_begin, i - 1)

\* C28 as stated: the positions visited by line_range(b, a) are those visited
\* by line_range(a, b), in reverse order.
C28_ReversalSymmetry ==
    WalkDone => seen = Reversed(Visited(ends.to, ends.from))

\* C28: line_range(b, a) visits as many positions as line_range(a, b); read
\* back to front it agrees with line_range(a, b) wherever the forward state
\* has error /= 0, and where the forward state has error = 0 it is one cell
\* further along the minor axis, on the same major-axis coordinate.
C28_ReversalUpToTies ==
    WalkDone =>
        LET back == Reversed(Visited(ends.to, ends.from))
            cx   == steep_swap(rng.m_begin).cx
            cy   == steep_swap(rng.m_begin).cy
        IN  /\ Len(back) = Len(seen)
            /\ \A i \in 1..Len(seen) :
                 IF StateAt(i).error /= 0 THEN back[i] = seen[i]
                 ELSE /\ back[i][cx] = seen[i][cx]
                      /\ back[i][cy] = seen[i][cy] + signum(rng.m_begin.dir[cy])
                      /\ back[i] /= seen[i]

\* A finished walk of a line with a tie: some forward state has error = 0, and
\* the reversed line differs there.
C28_Witness ==
    /\ WalkDone
    /\ Len(seen) >= 3
    /\ \E i \in 1..Len(seen) :
        /\ StateAt(i).error = 0
        /\ Reversed(Visited(ends.to, ends.from))[i] /= seen[i]
    /\ \E i \in 2..(Len(seen) - 1) :
        /\ StateAt(i).error /= 0
        /\ Reversed(Visited(ends.to, ends.from))[i] = seen[i]

====
